---- MODULE Spec2Model ----
(***************************************************************************)
(* Model of supply_chain_analysis.py: one batch run that loads four CSV    *)
(* tables and computes the fulfillment, inventory, supplier, cost and      *)
(* trend metrics in sequence, prints the insights and writes the workbook. *)
(*                                                                         *)
(* Numbers.  A metric value is a record [kind, num, den]: kind "num" is    *)
(* the exact rational num/den (den > 0), the other kinds are the IEEE      *)
(* values a numpy division produces ("inf", "-inf", "nan") and "unset"     *)
(* for a name the script has not assigned yet.  Columns that the script    *)
(* passes through .round(2) are integers counted in hundredths.            *)
(* A missing cell of a text column is the string NaN.  A boolean-mask row   *)
(* selection df[mask] is SelectSeq.                                        *)
(***************************************************************************)
EXTENDS Integers, Sequences, FiniteSets, TLC

VARIABLES
    files,                  \* the four CSV files on disk (tables)
    present,                \* names of the CSV files that exist
    pc,                     \* section of the script that runs next
    error,                  \* exception that ended the run, "" if none
    orders_df, inventory_df, supplier_df, shipping_df,
    on_time_rate, avg_delivery_time, late_orders, avg_delay,
    warehouse_performance,
    low_stock_items, overstock_items, inventory_summary,
    top_suppliers, bottom_suppliers,
    orders_with_shipping, total_order_value, total_shipping_cost,
    carrier_analysis, high_cost_threshold, high_cost_shipments, savings,
    monthly_trends,
    report,                 \* sections printed to the console so far
    xlsx                    \* sheets of the workbook saved on disk

vars == <<files, present, pc, error,
          orders_df, inventory_df, supplier_df, shipping_df,
          on_time_rate, avg_delivery_time, late_orders, avg_delay,
          warehouse_performance,
          low_stock_items, overstock_items, inventory_summary,
          top_suppliers, bottom_suppliers,
          orders_with_shipping, total_order_value, total_shipping_cost,
          carrier_analysis, high_cost_threshold, high_cost_shipments, savings,
          monthly_trends, report, xlsx>>

fulfillmentVars == <<on_time_rate, avg_delivery_time, late_orders, avg_delay,
                     warehouse_performance>>
inventoryVars == <<low_stock_items, overstock_items, inventory_summary>>
supplierVars == <<top_suppliers, bottom_suppliers>>
costVars == <<orders_with_shipping, total_order_value, total_shipping_cost,
              carrier_analysis, high_cost_threshold, high_cost_shipments, savings>>
tableVars == <<orders_df, inventory_df, supplier_df, shipping_df>>

-----------------------------------------------------------------------------
(* Bounds of the explored inputs. *)
MaxOrders == 3          \* rows of the Order table (fulfillment inputs)
MaxTrendOrders == 3     \* rows of the Order table (trend inputs)
MaxItems == 2           \* rows of the Inventory table
MaxSuppliers == 8       \* rows of the Supplier table
MaxShipments == 3       \* rows of the Shipment table
MaxJoinOrders == 2      \* rows of the Order table (cost inputs)

-----------------------------------------------------------------------------
(* Values. *)
NaN == "NaN"
Unset == [kind |-> "unset", num |-> 0, den |-> 1]
NaNv == [kind |-> "nan", num |-> 0, den |-> 1]
Inf == [kind |-> "inf", num |-> 0, den |-> 1]
NegInf == [kind |-> "-inf", num |-> 0, den |-> 1]
Num(n, d) == [kind |-> "num", num |-> n, den |-> d]

\* numpy true division n / d of two exact values given as integers.
Div(n, d) ==
    IF d = 0 THEN (IF n > 0 THEN Inf ELSE IF n < 0 THEN NegInf ELSE NaNv)
    ELSE IF d < 0 THEN Num(-n, -d) ELSE Num(n, d)

\* Equality of two metric values as numbers.
SameValue(a, b) ==
    /\ a.kind = b.kind
    /\ a.kind = "num" => a.num * b.den = b.num * a.den

\* .round(2) of the rational n/d (d > 0), in hundredths: numpy rounds
\* half to even.
Round2(n, d) ==
    LET s == 100 * n
        q == s \div d
        r == s % d
    IN  IF 2 * r < d THEN q
        ELSE IF 2 * r > d THEN q + 1
        ELSE IF q % 2 = 0 THEN q ELSE q + 1

RECURSIVE SumSeq(_)
SumSeq(s) == IF s = <<>> THEN 0 ELSE Head(s) + SumSeq(Tail(s))

Column(df, c) == [i \in 1..Len(df) |-> df[i][c]]

\* Series.mean(): NaN for an empty series.
Mean(s) == IF Len(s) = 0 THEN NaNv ELSE Num(SumSeq(s), Len(s))

\* A supplier name that starts with a vertical tab (0x0B), written here in
\* caret notation: a control character that openpyxl refuses in a cell.
ControlName == "^K-Supply"

\* Lexicographic order of the text values that occur in the tables.
Alphabet == <<ControlName, "East", "Electronics", "FedEx", "Furniture",
              "S01", "S02", "S03", "S04", "S05", "S06", "S07", "S08", "S09", "S10",
              "UPS", "West">>
Rank(str) == CHOOSE i \in 1..Len(Alphabet) : Alphabet[i] = str

\* The distinct non-missing values of a key column in ascending order:
\* groupby drops missing keys and sorts the group keys.
RECURSIVE SortedKeys(_)
SortedKeys(S) ==
    IF S = {} THEN <<>>
    ELSE LET m == CHOOSE x \in S : \A y \in S : Rank(x) <= Rank(y)
         IN  <<m>> \o SortedKeys(S \ {m})

GroupKeys(df, c) == SortedKeys({df[i][c] : i \in 1..Len(df)} \ {NaN})

\* Rows of one group, in table order.
Group(df, c, k) == LET InGroup(r) == r[c] = k IN SelectSeq(df, InGroup)

\* 'count' aggregation: the cells of the column that are not missing.
Count(df, c) == LET NotNull(r) == r[c] # NaN IN Len(SelectSeq(df, NotNull))

\* (x == 'Yes').sum()
CountYes(df) == LET IsYes(r) == r.On_Time_Delivery = "Yes" IN Len(SelectSeq(df, IsYes))

-----------------------------------------------------------------------------
(* Sorting.  keys is the sort column, S the row positions still to place.  *)

Extreme(keys, S, ascending) ==
    {i \in S : \A j \in S : IF ascending THEN keys[i] <= keys[j] ELSE keys[i] >= keys[j]}

\* DataFrame.sort_values(col) with the default kind='quicksort': the rows in
\* key order; numpy's quicksort is not stable, so rows with equal keys come
\* out in an order that depends on the numpy build.  Every order it can
\* produce, as sequences of row positions.
RECURSIVE SortedOrders(_, _, _)
SortedOrders(keys, S, ascending) ==
    IF S = {} THEN {<<>>}
    ELSE UNION {{<<i>> \o rest : rest \in SortedOrders(keys, S \ {i}, ascending)} :
                i \in Extreme(keys, S, ascending)}

\* The stable order (kind='mergesort'): equal keys keep their table order.
RECURSIVE StableOrder(_, _, _)
StableOrder(keys, S, ascending) ==
    IF S = {} THEN <<>>
    ELSE LET E == Extreme(keys, S, ascending)
             i == CHOOSE x \in E : \A y \in E : x <= y
         IN  <<i>> \o StableOrder(keys, S \ {i}, ascending)

Take(df, idx) == [k \in 1..Len(idx) |-> df[idx[k]]]

SortValues(df, c, ascending) ==
    {Take(df, idx) : idx \in SortedOrders(Column(df, c), 1..Len(df), ascending)}

Head_(s, n) == SubSeq(s, 1, IF n < Len(s) THEN n ELSE Len(s))

-----------------------------------------------------------------------------
(* Dates are month * 100 + day within one non-leap year. *)
DaysBefore == <<0, 31, 59, 90>>
DayNumber(date) == DaysBefore[date \div 100] + (date % 100)
DaysBetween(later, earlier) == DayNumber(later) - DayNumber(earlier)
ToPeriodM(date) == date \div 100

-----------------------------------------------------------------------------
(* Input tables: the rows read_csv can deliver, from small domains. *)
OrderIds == <<"O1", "O2", "O3", "O4", "O5", "O6", "O7", "O8", "O9", "O10">>
ShippingIds == <<"SH1", "SH2", "SH3", "SH4", "SH5", "SH6", "SH7", "SH8", "SH9", "SH10">>
SupplierNames == <<"S01", "S02", "S03", "S04", "S05", "S06", "S07", "S08", "S09", "S10">>

\* An order placed on `date`, due four days later, delivered a day early
\* when flagged on time and two days late otherwise.
OrderRow(id, date, flag, wh, value) ==
    [Order_ID |-> id, Order_Date |-> date, Expected_Delivery |-> date + 4,
     Actual_Delivery |-> IF flag = "Yes" THEN date + 3 ELSE date + 6,
     On_Time_Delivery |-> flag, Warehouse |-> wh, Total_Value |-> value]

InventoryRow(cat, stock, demand, status) ==
    [Product |-> "P", Warehouse |-> "East", Category |-> cat,
     Current_Stock |-> stock, Reorder_Point |-> 2, Avg_Monthly_Demand |-> demand,
     Days_of_Inventory |-> IF demand = 0 THEN 999 ELSE (stock * 30) \div demand,
     Stock_Status |-> status]

SupplierRow(name, p) ==
    [Supplier |-> name, Category |-> "Electronics",
     On_Time_Delivery_Rate |-> p[1], Quality_Score |-> p[2],
     Defect_Rate_Percent |-> p[3], Total_Orders |-> 10]

ShipmentRow(i, oid, carrier, cost) ==
    [Shipping_ID |-> ShippingIds[i], Order_ID |-> oid, Carrier |-> carrier,
     Shipping_Method |-> "Ground", Shipping_Cost |-> cost, Distance_KM |-> 5,
     Weight_KG |-> 1]

SeqsUpTo(n, S) == UNION {[1..k -> S] : k \in 0..n}

\* Order tables that vary warehouse, flag and the presence of the identifier.
FulfillmentOrders ==
    {[i \in 1..Len(t) |->
         OrderRow(IF t[i][1] THEN OrderIds[i] ELSE NaN, 101, t[i][2], t[i][3], 10)] :
     t \in SeqsUpTo(MaxOrders, ({TRUE} \X {"Yes", "No"} \X {"East", "West"})
                                  \cup {<<TRUE, "Yes", NaN>>, <<FALSE, "Yes", "East">>})}

\* Order tables that vary the order month and the order value.
TrendOrders ==
    {[i \in 1..Len(t) |-> OrderRow(OrderIds[i], t[i][1], "Yes", "East", t[i][2])] :
     t \in SeqsUpTo(MaxTrendOrders, {101, 201, 301} \X {0, 10})}

InventoryTables ==
    {[i \in 1..Len(t) |-> InventoryRow(t[i][1], t[i][2], t[i][3], t[i][4])] :
     t \in SeqsUpTo(MaxItems, ({"Electronics", "Furniture"} \X {0, 5} \X {0, 3} \X {"Normal"})
                                 \cup {<<"Electronics", 0, 3, "Low Stock">>,
                                       <<"Electronics", 5, 3, "Low Stock">>,
                                       <<"Electronics", 5, 0, "Overstock">>})}

\* Supplier tables: every row has one of two score profiles, and the names
\* run up or down the rows.
SupplierProfiles == {<<90, 95, 1>>, <<80, 85, 2>>}
SupplierTables ==
    {[i \in 1..Len(t) |->
         SupplierRow(SupplierNames[IF up THEN i ELSE Len(t) + 1 - i], t[i])] :
     t \in SeqsUpTo(MaxSuppliers, SupplierProfiles), up \in BOOLEAN}

\* Order tables of the cost inputs: the same identifier may repeat.
JoinOrders ==
    {[i \in 1..Len(t) |-> OrderRow(t[i], 101, "Yes", "East", 10)] :
     t \in SeqsUpTo(MaxJoinOrders, {"O1"}) \ {<<>>}}

\* Shipment tables: a shipment refers to order O1 or to O9, which no
\* Order table of JoinOrders holds.
ShipmentTables ==
    {[i \in 1..Len(t) |-> ShipmentRow(i, t[i][1], t[i][2], t[i][3])] :
     t \in SeqsUpTo(MaxShipments, ({"O1"} \X {"FedEx", "UPS"} \X {10, 20})
                                     \cup {<<"O9", "FedEx", 20>>, <<"O9", "UPS", 10>>})}

\* The reference tables: ten orders, eight of them on time, each with one
\* shipment, the shipments costing 10, 20, ..., 100.
RefOrders ==
    [i \in 1..10 |-> OrderRow(OrderIds[i], 101, IF i <= 8 THEN "Yes" ELSE "No",
                              IF i % 2 = 1 THEN "East" ELSE "West", 100)]
RefShipments ==
    [i \in 1..10 |-> ShipmentRow(i, OrderIds[i], IF i <= 5 THEN "FedEx" ELSE "UPS", 10 * i)]
\* Small tables for the inputs that a family of inputs does not vary.
BaseOrders ==
    <<OrderRow("O1", 101, "Yes", "East", 10), OrderRow("O2", 201, "No", "West", 20)>>
BaseShipments ==
    <<ShipmentRow(1, "O1", "FedEx", 10), ShipmentRow(2, "O2", "UPS", 20)>>
BaseInventory ==
    <<InventoryRow("Electronics", 5, 3, "Normal"), InventoryRow("Furniture", 5, 3, "Low Stock")>>
BaseSuppliers ==
    <<SupplierRow("S01", <<90, 95, 1>>), SupplierRow("S02", <<80, 85, 2>>)>>
ControlSuppliers ==
    <<SupplierRow("S01", <<90, 95, 1>>), SupplierRow(ControlName, <<80, 85, 2>>)>>

FileNames == {"orders_data.csv", "inventory_data.csv", "supplier_performance.csv",
              "shipping_costs.csv"}

Files(o, i, s, h) == [orders |-> o, inventory |-> i, supplier |-> s, shipping |-> h]

BaseFiles == Files(BaseOrders, BaseInventory, BaseSuppliers, BaseShipments)

Inputs ==
    {Files(o, BaseInventory, BaseSuppliers, BaseShipments) :
        o \in FulfillmentOrders \cup TrendOrders}
    \cup {Files(BaseOrders, i, BaseSuppliers, BaseShipments) : i \in InventoryTables}
    \cup {Files(BaseOrders, BaseInventory, s, BaseShipments) : s \in SupplierTables}
    \cup {Files(o, BaseInventory, BaseSuppliers, h) : o \in JoinOrders, h \in ShipmentTables}
    \cup {BaseFiles, Files(RefOrders, BaseInventory, BaseSuppliers, RefShipments),
          Files(BaseOrders, BaseInventory, ControlSuppliers, BaseShipments)}

Init ==
    /\ files \in Inputs
    /\ present \in {FileNames} \cup
           (IF files = BaseFiles
            THEN {FileNames \ {f} : f \in FileNames} ELSE {})
    /\ pc = "load"
    /\ error = ""
    /\ orders_df = <<>> /\ inventory_df = <<>> /\ supplier_df = <<>> /\ shipping_df = <<>>
    /\ on_time_rate = Unset /\ avg_delivery_time = Unset
    /\ late_orders = <<>> /\ avg_delay = Unset
    /\ warehouse_performance = <<>>
    /\ low_stock_items = <<>> /\ overstock_items = <<>> /\ inventory_summary = <<>>
    /\ top_suppliers = <<>> /\ bottom_suppliers = <<>>
    /\ orders_with_shipping = <<>>
    /\ total_order_value = Unset /\ total_shipping_cost = Unset
    /\ carrier_analysis = <<>> /\ high_cost_threshold = Unset
    /\ high_cost_shipments = <<>> /\ savings = Unset
    /\ monthly_trends = <<>>
    /\ report = <<>>
    /\ xlsx = <<>>

-----------------------------------------------------------------------------
(* 1. Data loading (lines 34-43). *)
LoadWhatExists ==
    /\ pc = "load"
    /\ orders_df' = files.orders
    /\ inventory_df' = files.inventory
    /\ supplier_df' = files.supplier
    /\ shipping_df' = files.shipping
    /\ report' = Append(report, "loaded")
    /\ pc' = "fulfillment"
    /\ UNCHANGED <<files, present, error, fulfillmentVars, inventoryVars, supplierVars,
                   costVars, monthly_trends, xlsx>>

Load ==
    /\ pc = "load"
    /\ present = FileNames
    /\ orders_df' = files.orders
    /\ inventory_df' = files.inventory
    /\ supplier_df' = files.supplier
    /\ shipping_df' = files.shipping
    /\ report' = Append(report, "loaded")
    /\ pc' = "fulfillment"
    /\ UNCHANGED <<files, present, error, fulfillmentVars, inventoryVars, supplierVars,
                   costVars, monthly_trends, xlsx>>

\* read_csv raises FileNotFoundError for the first missing file.
LoadFail ==
    /\ pc = "load"
    /\ present # FileNames
    /\ error' = "FileNotFoundError"
    /\ pc' = "failed"
    /\ UNCHANGED <<files, present, tableVars, fulfillmentVars, inventoryVars,
                   supplierVars, costVars, monthly_trends, report, xlsx>>

-----------------------------------------------------------------------------
(* 2. Order fulfillment analysis (lines 54-83). *)

\* Python's int / int raises ZeroDivisionError when the divisor is 0.
ZeroDivisionNever(divisor) == FALSE
ZeroDivision(divisor) == divisor = 0

OnTimeRateFraction(df) == Num(CountYes(df), Len(df))
\* (on_time_orders / total_orders) * 100, lines 54-56.
OnTimeRate(df) == Num(CountYes(df) * 100, Len(df))

\* orders_df['Delivery_Time_Days'] = (Actual_Delivery - Order_Date).dt.days
WithDeliveryTime(df) ==
    [i \in 1..Len(df) |->
        df[i] @@ [Delivery_Time_Days |-> DaysBetween(df[i].Actual_Delivery, df[i].Order_Date)]]

LateOrders(df) == LET IsLate(r) == r.On_Time_Delivery = "No" IN SelectSeq(df, IsLate)

AvgDelay(late) ==
    Mean([i \in 1..Len(late) |->
             DaysBetween(late[i].Actual_Delivery, late[i].Expected_Delivery)])

\* One row of orders_df.groupby('Warehouse').agg({...}).round(2), lines 72-79.
WarehouseRow(g, k) ==
    [Warehouse |-> k,
     Total_Orders |-> Count(g, "Order_ID"),
     On_Time_Rate_Pct |-> Round2(CountYes(g) * 100, Len(g)),
     Total_Revenue |-> Round2(SumSeq(Column(g, "Total_Value")), 1),
     Avg_Delivery_Days |-> Round2(SumSeq(Column(g, "Delivery_Time_Days")), Len(g))]

WarehouseRollup(df) ==
    LET keys == GroupKeys(df, "Warehouse")
    IN  [j \in 1..Len(keys) |-> WarehouseRow(Group(df, "Warehouse", keys[j]), keys[j])]

Fulfillment ==
    /\ pc = "fulfillment"
    /\ ~ZeroDivision(Len(orders_df))
    /\ LET df == WithDeliveryTime(orders_df)
           late == LateOrders(df)
       IN  /\ on_time_rate' = OnTimeRate(orders_df)
           /\ orders_df' = df
           /\ avg_delivery_time' = Mean(Column(df, "Delivery_Time_Days"))
           /\ late_orders' = late
           /\ avg_delay' = AvgDelay(late)
           /\ warehouse_performance' \in
                  SortValues(WarehouseRollup(df), "On_Time_Rate_Pct", FALSE)
    /\ report' = Append(report, "fulfillment")
    /\ pc' = "inventory"
    /\ UNCHANGED <<files, present, error, inventory_df, supplier_df, shipping_df,
                   inventoryVars, supplierVars, costVars, monthly_trends, xlsx>>

\* on_time_orders / total_orders divides two Python ints: with no order rows
\* line 56 raises ZeroDivisionError and the script ends there.
FulfillmentFail ==
    /\ pc = "fulfillment"
    /\ ZeroDivision(Len(orders_df))
    /\ error' = "ZeroDivisionError"
    /\ pc' = "failed"
    /\ UNCHANGED <<files, present, tableVars, fulfillmentVars, inventoryVars,
                   supplierVars, costVars, monthly_trends, report, xlsx>>

-----------------------------------------------------------------------------
(* 3. Inventory analysis (lines 94-120). *)

\* Series.round(2) of a metric value; inf and nan stay as they are.
RoundValue(v) == IF v.kind = "num" THEN Num(Round2(v.num, v.den), 100) ELSE v

WithStatus(df, status) == LET Is(r) == r.Stock_Status = status IN SelectSeq(df, Is)

\* (Avg_Monthly_Demand * 12 / Current_Stock).round(2) on the rounded sums,
\* both in hundredths (line 118): a pandas division, which does not raise.
TurnoverRatio(demand, stock) == RoundValue(Div(demand * 12, stock))

InventoryRollupRow(g, k) ==
    LET stock == Round2(SumSeq(Column(g, "Current_Stock")), 1)
        demand == Round2(SumSeq(Column(g, "Avg_Monthly_Demand")), 1)
    IN  [Category |-> k,
         Current_Stock |-> stock,
         Avg_Monthly_Demand |-> demand,
         Days_of_Inventory |-> Round2(SumSeq(Column(g, "Days_of_Inventory")), Len(g)),
         Turnover_Ratio |-> TurnoverRatio(demand, stock)]

InventorySummary(df) ==
    LET keys == GroupKeys(df, "Category")
    IN  [j \in 1..Len(keys) |-> InventoryRollupRow(Group(df, "Category", keys[j]), keys[j])]

Inventory ==
    /\ pc = "inventory"
    /\ low_stock_items' \in
           SortValues(WithStatus(inventory_df, "Low Stock"), "Days_of_Inventory", TRUE)
    /\ overstock_items' \in
           SortValues(WithStatus(inventory_df, "Overstock"), "Current_Stock", FALSE)
    /\ inventory_summary' = InventorySummary(inventory_df)
    /\ report' = Append(report, "inventory")
    /\ pc' = "supplier"
    /\ UNCHANGED <<files, present, error, tableVars, fulfillmentVars, supplierVars,
                   costVars, monthly_trends, xlsx>>

-----------------------------------------------------------------------------
(* 4. Supplier performance analysis (lines 131-153). *)
TopN == 5
BottomN == 3

\* (On_Time * 0.4 + Quality * 0.4 - Defect * 2).round(2), in hundredths.
PerformanceScore(r) ==
    Round2(4 * r.On_Time_Delivery_Rate + 4 * r.Quality_Score - 20 * r.Defect_Rate_Percent, 10)

RankedWithPerformanceScore(df) ==
    [i \in 1..Len(df) |->
        df[Len(df) + 1 - i] @@ [Performance_Score |-> PerformanceScore(df[Len(df) + 1 - i])]]

WithPerformanceScore(df) ==
    [i \in 1..Len(df) |-> df[i] @@ [Performance_Score |-> PerformanceScore(df[i])]]

\* The column selection [['Supplier', 'Category', ...]] of lines 146 and 151.
SupplierColumns(df) ==
    [i \in 1..Len(df) |->
        [Supplier |-> df[i].Supplier, Category |-> df[i].Category,
         On_Time_Delivery_Rate |-> df[i].On_Time_Delivery_Rate,
         Quality_Score |-> df[i].Quality_Score,
         Performance_Score |-> df[i].Performance_Score]]

\* DataFrame.nlargest / nsmallest(n, c) with keep='first'.  With more than n
\* rows pandas orders the candidates with a mergesort, so equal values come
\* in table order; with n >= len(df) it returns sort_values(...).head(n).
SelectN(df, n, c, ascending) ==
    IF n >= Len(df)
    THEN {Head_(t, n) : t \in SortValues(df, c, ascending)}
    ELSE {Take(df, Head_(StableOrder(Column(df, c), 1..Len(df), ascending), n))}

NLargest(df, n, c) == SelectN(df, n, c, FALSE)
NSmallest(df, n, c) == SelectN(df, n, c, TRUE)

\* read_csv gives every column of a table without rows the dtype object.
ObjectDtype(df) == Len(df) = 0

Supplier ==
    /\ pc = "supplier"
    /\ ~ObjectDtype(supplier_df)
    /\ LET df == WithPerformanceScore(supplier_df)
       IN  /\ supplier_df' = df
           /\ \E t \in NLargest(df, TopN, "Performance_Score") :
                  top_suppliers' = SupplierColumns(t)
           /\ \E b \in NSmallest(df, BottomN, "Performance_Score") :
                  bottom_suppliers' = SupplierColumns(b)
    /\ report' = Append(report, "supplier")
    /\ pc' = "cost"
    /\ UNCHANGED <<files, present, error, orders_df, inventory_df, shipping_df,
                   fulfillmentVars, inventoryVars, costVars, monthly_trends, xlsx>>

\* nlargest on line 146 raises TypeError for a Performance_Score column of
\* dtype object, which is what a Supplier table without rows has.
SupplierFail ==
    /\ pc = "supplier"
    /\ ObjectDtype(supplier_df)
    /\ error' = "TypeError"
    /\ pc' = "failed"
    /\ UNCHANGED <<files, present, tableVars, fulfillmentVars, inventoryVars,
                   supplierVars, costVars, monthly_trends, report, xlsx>>

-----------------------------------------------------------------------------
(* 5. Cost analysis (lines 164-195). *)

\* orders_df.merge(shipping_df, on='Order_ID'): the inner join, one row per
\* pair of an order row and a shipment row with the same identifier, in the
\* order of the order rows and, within one order, of the shipment rows.
RECURSIVE Merge(_, _)
Merge(left, right) ==
    IF left = <<>> THEN <<>>
    ELSE LET o == Head(left)
             Match(h) == h.Order_ID = o.Order_ID
             m == SelectSeq(right, Match)
         IN  [i \in 1..Len(m) |-> o @@ m[i]] \o Merge(Tail(left), right)

TotalOrderValue(orders, joined) == Num(SumSeq(Column(orders, "Total_Value")), 1)
TotalShippingCost(joined, shipping) == Num(SumSeq(Column(shipping, "Shipping_Cost")), 1)

\* The frames the per-carrier rollup and the percentile are computed from.
CarrierSource(joined, shipping) == shipping
QuantileSource(joined, shipping) == shipping

CarrierRow(g, k) ==
    LET shipments == Count(g, "Shipping_ID")
        total == Round2(SumSeq(Column(g, "Shipping_Cost")), 1)
        dist == Round2(SumSeq(Column(g, "Distance_KM")), Len(g))
    IN  [Carrier |-> k,
         Shipments |-> shipments,
         Total_Cost |-> total,
         Avg_Cost |-> Round2(SumSeq(Column(g, "Shipping_Cost")), Len(g)),
         Avg_Distance |-> dist,
         Cost_per_KM |-> RoundValue(Div(total, shipments * dist))]

CarrierRollup(df) ==
    LET keys == GroupKeys(df, "Carrier")
    IN  [j \in 1..Len(keys) |-> CarrierRow(Group(df, "Carrier", keys[j]), keys[j])]

\* Series.quantile(q / 10) with the default linear interpolation: position
\* q(n-1)/10 among the sorted values, NaN for an empty series.
QuantileTenths == 9
Quantile(values, q) ==
    LET n == Len(values)
        a == Take(values, StableOrder(values, 1..n, TRUE))
        lo == (q * (n - 1)) \div 10
        r == (q * (n - 1)) % 10
    IN  IF n = 0 THEN NaNv
        ELSE IF r = 0 THEN Num(a[lo + 1], 1)
        ELSE Num(10 * a[lo + 1] + r * (a[lo + 2] - a[lo + 1]), 10)

GreaterOrEqual(x, v) == v.kind = "num" /\ x * v.den >= v.num
\* x > v for an integer x; a comparison with NaN is False.
Greater(x, v) == v.kind = "num" /\ x * v.den > v.num

HighCost(joined, threshold) ==
    LET Above(r) == Greater(r.Shipping_Cost, threshold) IN SelectSeq(joined, Above)

Cost ==
    /\ pc = "cost"
    /\ LET joined == Merge(orders_df, shipping_df)
           threshold == Quantile(Column(QuantileSource(joined, shipping_df), "Shipping_Cost"),
                                 QuantileTenths)
       IN  /\ orders_with_shipping' = joined
           /\ total_order_value' = TotalOrderValue(orders_df, joined)
           /\ total_shipping_cost' = TotalShippingCost(joined, shipping_df)
           /\ carrier_analysis' \in
                  SortValues(CarrierRollup(CarrierSource(joined, shipping_df)),
                             "Total_Cost", FALSE)
           /\ high_cost_threshold' = threshold
           /\ high_cost_shipments' = HighCost(joined, threshold)
           /\ savings' = Num(SumSeq(Column(HighCost(joined, threshold), "Shipping_Cost")) * 15,
                             100)
    /\ report' = Append(report, "cost")
    /\ pc' = "trend"
    /\ UNCHANGED <<files, present, error, tableVars, fulfillmentVars, inventoryVars,
                   supplierVars, monthly_trends, xlsx>>

\* (total_shipping_cost / total_order_value) * 100 as printed on line 173.
ShippingPct == Div(total_shipping_cost.num * 100, total_order_value.num)

-----------------------------------------------------------------------------
(* 6. Trend analysis (lines 206-220). *)

WithYearMonth(df) ==
    [i \in 1..Len(df) |-> df[i] @@ [Year_Month |-> ToPeriodM(df[i].Order_Date)]]

RECURSIVE SortedInts(_)
SortedInts(S) ==
    IF S = {} THEN <<>>
    ELSE LET m == CHOOSE x \in S : \A y \in S : x <= y
         IN  <<m>> \o SortedInts(S \ {m})

ShiftBackfilled(col) == [i \in 1..Len(col) |-> IF i = 1 THEN <<col[1]>> ELSE <<col[i - 1]>>]
\* shift(1): every value moves one row down, the first row gets no value.
Shift(col) == [i \in 1..Len(col) |-> IF i = 1 THEN <<>> ELSE <<col[i - 1]>>]

\* Series.pct_change() * 100: data / data.shift(1) - 1, times 100.
PctChange(col) ==
    LET prev == Shift(col)
    IN  [i \in 1..Len(col) |->
           IF prev[i] = <<>> THEN NaNv
           ELSE LET v == Div(col[i], prev[i][1])
                IN  IF v.kind = "num" THEN Num((v.num - v.den) * 100, v.den) ELSE v]

MonthlyRollup(df) ==
    LET keys == SortedInts({df[i].Year_Month : i \in 1..Len(df)})
        G(k) == LET InMonth(r) == r.Year_Month = k IN SelectSeq(df, InMonth)
    IN  [j \in 1..Len(keys) |->
           [Year_Month |-> keys[j],
            Orders |-> Count(G(keys[j]), "Order_ID"),
            Revenue |-> Round2(SumSeq(Column(G(keys[j]), "Total_Value")), 1),
            On_Time_Rate_Pct |-> Round2(CountYes(G(keys[j])) * 100, Len(G(keys[j])))]]

MonthlyTrends(df) ==
    LET t == MonthlyRollup(df)
        og == PctChange(Column(t, "Orders"))
        rg == PctChange(Column(t, "Revenue"))
    IN  [j \in 1..Len(t) |->
           t[j] @@ [Order_Growth_Pct |-> og[j], Revenue_Growth_Pct |-> rg[j]]]

Trend ==
    /\ pc = "trend"
    /\ orders_df' = WithYearMonth(orders_df)
    /\ monthly_trends' = MonthlyTrends(WithYearMonth(orders_df))
    /\ report' = Append(report, "trend")
    /\ pc' = "insights"
    /\ UNCHANGED <<files, present, error, inventory_df, supplier_df, shipping_df,
                   fulfillmentVars, inventoryVars, supplierVars, costVars, xlsx>>

-----------------------------------------------------------------------------
(* 7. Key insights (lines 230-250). *)

\* warehouse_performance.iloc[0] on line 232 needs a warehouse row.
Insights ==
    /\ pc = "insights"
    /\ Len(warehouse_performance) > 0
    /\ report' = Append(report, "insights")
    /\ pc' = "export"
    /\ UNCHANGED <<files, present, error, tableVars, fulfillmentVars, inventoryVars,
                   supplierVars, costVars, monthly_trends, xlsx>>

InsightsFail ==
    /\ pc = "insights"
    /\ Len(warehouse_performance) = 0
    /\ error' = "IndexError"
    /\ pc' = "failed"
    /\ UNCHANGED <<files, present, tableVars, fulfillmentVars, inventoryVars,
                   supplierVars, costVars, monthly_trends, report, xlsx>>

-----------------------------------------------------------------------------
(* 8. Saving the results (lines 257-287). *)

TableSheets == <<"Warehouse_Performance", "Supplier_Rankings", "Inventory_Summary",
                 "Carrier_Analysis", "Monthly_Trends">>

\* The two names the executive summary reads (lines 281-282).
BestWarehouse == warehouse_performance[1].Warehouse
TopSupplier == top_suppliers[1].Supplier

\* openpyxl raises IllegalCharacterError for a text cell that holds a control
\* character.
Unwritable(df) == \E i \in 1..Len(df) : df[i].Supplier = ControlName

\* All six sheets are written and the workbook is saved when the with block
\* ends.  warehouse_performance and top_suppliers have a row by now (lines
\* 232 and 146 ended the run otherwise), so lines 281-282 do not raise.
Export ==
    /\ pc = "export"
    /\ ~Unwritable(supplier_df)
    /\ xlsx' = Append(TableSheets, "Executive_Summary")
    /\ report' = Append(report, "saved")
    /\ pc' = "done"
    /\ UNCHANGED <<files, present, error, tableVars, fulfillmentVars, inventoryVars,
                   supplierVars, costVars, monthly_trends>>

\* to_excel of the supplier table (line 259) raises inside the with block
\* when a cell cannot be written, after the Warehouse_Performance sheet was
\* written and the Supplier_Rankings sheet was created;
\* ExcelWriter.__exit__ closes the writer whatever happened, which saves the
\* workbook as it stands, and the exception ends the run.
ExportFail ==
    /\ pc = "export"
    /\ Unwritable(supplier_df)
    /\ xlsx' = SubSeq(TableSheets, 1, 2)
    /\ error' = "IllegalCharacterError"
    /\ pc' = "failed"
    /\ UNCHANGED <<files, present, tableVars, fulfillmentVars, inventoryVars,
                   supplierVars, costVars, monthly_trends, report>>

-----------------------------------------------------------------------------
Next ==
    \/ Load
    \/ LoadFail
    \/ Fulfillment
    \/ FulfillmentFail
    \/ Inventory
    \/ Supplier
    \/ SupplierFail
    \/ Cost
    \/ Trend
    \/ Insights
    \/ InsightsFail
    \/ Export
    \/ ExportFail

Spec == Init /\ [][Next]_vars

-----------------------------------------------------------------------------
(* Properties. *)

Printed(section) == \E i \in 1..Len(report) : report[i] = section
Rows(df) == 1..Len(df)
NumberOf(S) == Cardinality(S)

\* C1: once the fulfillment step has run, the overall on-time rate is
\* 100 x (orders flagged 'Yes') / (all orders) of the loaded Order table and
\* lies in [0, 100]; ten orders with eight flagged 'Yes' give 80.
OnTimeRateIsShareOfYes ==
    Printed("fulfillment") =>
        LET yes == NumberOf({i \in Rows(files.orders) :
                               files.orders[i].On_Time_Delivery = "Yes"})
            total == Len(files.orders)
        IN  /\ on_time_rate.kind = "num"
            /\ on_time_rate.num * total = 100 * yes * on_time_rate.den
            /\ 0 <= on_time_rate.num
            /\ on_time_rate.num <= 100 * on_time_rate.den
            /\ (total = 10 /\ yes = 8) => on_time_rate.num = 80 * on_time_rate.den

OnTimeRateEightOfTen ==
    /\ Printed("fulfillment")
    /\ Len(files.orders) = 10
    /\ SameValue(on_time_rate, Num(80, 1))

\* C2: the Total_Orders of the warehouse rows add up to the number of
\* orders, and every warehouse on-time rate is within [0, 100], also when
\* warehouse or order identifier cells are missing.
WarehouseCountsCoverAllOrders ==
    Printed("fulfillment") =>
        /\ SumSeq(Column(warehouse_performance, "Total_Orders")) = Len(files.orders)
        /\ \A j \in Rows(warehouse_performance) :
               /\ 0 <= warehouse_performance[j].On_Time_Rate_Pct
               /\ warehouse_performance[j].On_Time_Rate_Pct <= 10000

\* C3: with at least 8 suppliers the top-5 and the bottom-3 selections have
\* no supplier in common, equal scores included.
TopAndBottomDisjoint ==
    (Printed("supplier") /\ Len(supplier_df) >= 8) =>
        {top_suppliers[i].Supplier : i \in Rows(top_suppliers)}
            \cap {bottom_suppliers[i].Supplier : i \in Rows(bottom_suppliers)} = {}

\* C4: the top-5 rows are in descending score order, suppliers with equal
\* scores are listed by ascending name, and a supplier left out that ties
\* with a listed one has the larger name.
TopSuppliersTiesByName ==
    Printed("supplier") =>
        /\ \A i, j \in Rows(top_suppliers) :
               i < j =>
                  \/ top_suppliers[i].Performance_Score > top_suppliers[j].Performance_Score
                  \/ /\ top_suppliers[i].Performance_Score = top_suppliers[j].Performance_Score
                     /\ Rank(top_suppliers[i].Supplier) < Rank(top_suppliers[j].Supplier)
        /\ \A i \in Rows(top_suppliers), k \in Rows(supplier_df) :
               (/\ supplier_df[k].Performance_Score = top_suppliers[i].Performance_Score
                /\ \A j \in Rows(top_suppliers) : top_suppliers[j].Supplier # supplier_df[k].Supplier)
               => Rank(top_suppliers[i].Supplier) < Rank(supplier_df[k].Supplier)

\* C5: in the monthly trend table both growth columns are null in the first
\* row, and in every later row they are (current - previous) / previous x 100
\* with previous taken from the row just above (a float division: infinite
\* or NaN when previous is 0).
MonthlyGrowthFromPreviousRow ==
    Printed("trend") =>
        \A j \in Rows(monthly_trends) :
            LET t == monthly_trends
            IN  IF j = 1
                THEN /\ t[j].Order_Growth_Pct = NaNv
                     /\ t[j].Revenue_Growth_Pct = NaNv
                ELSE /\ SameValue(t[j].Order_Growth_Pct,
                                  Div((t[j].Orders - t[j - 1].Orders) * 100, t[j - 1].Orders))
                     /\ SameValue(t[j].Revenue_Growth_Pct,
                                  Div((t[j].Revenue - t[j - 1].Revenue) * 100, t[j - 1].Revenue))

\* January and March are adjacent rows of a table without February, and
\* the order count doubles from the one to the other.
MonthlyGrowthSeen ==
    /\ Printed("trend")
    /\ Len(monthly_trends) = 2
    /\ monthly_trends[1].Year_Month = 1
    /\ monthly_trends[2].Year_Month = 3
    /\ monthly_trends[1].Order_Growth_Pct = NaNv
    /\ SameValue(monthly_trends[2].Order_Growth_Pct, Num(100, 1))

\* C6: shipments whose order identifier matches no order count in no cost
\* metric (total shipping cost, its share of the order value, the carrier
\* rollup, the percentile, the high-cost subset), and orders without a
\* shipment do not count in the total order value.
UnmatchedRowsExcludedFromCost ==
    Printed("cost") =>
        LET HasOrder(h) == \E i \in Rows(orders_df) : orders_df[i].Order_ID = h.Order_ID
            HasShipment(o) == \E i \in Rows(shipping_df) : shipping_df[i].Order_ID = o.Order_ID
            matched == SelectSeq(shipping_df, HasOrder)
            shipped == SelectSeq(orders_df, HasShipment)
            cost == SumSeq(Column(matched, "Shipping_Cost"))
            value == SumSeq(Column(shipped, "Total_Value"))
        IN  /\ SameValue(total_shipping_cost, Num(cost, 1))
            /\ SameValue(total_order_value, Num(value, 1))
            /\ SameValue(ShippingPct, Div(cost * 100, value))
            /\ SumSeq(Column(carrier_analysis, "Shipments")) = Len(matched)
            /\ SameValue(high_cost_threshold,
                         Quantile(Column(matched, "Shipping_Cost"), QuantileTenths))
            /\ \A i \in Rows(high_cost_shipments) : HasOrder(high_cost_shipments[i])

\* C7: with an Order table of zero rows the run ends in the fulfillment step
\* with an error, before any fulfillment metric has a value, and nothing of
\* it is reported or exported.
EmptyOrdersRejected ==
    (present = FileNames /\ Len(files.orders) = 0 /\ pc \notin {"load", "fulfillment"}) =>
        /\ pc = "failed"
        /\ error = "ZeroDivisionError"
        /\ on_time_rate = Unset
        /\ avg_delivery_time = Unset
        /\ avg_delay = Unset
        /\ warehouse_performance = <<>>
        /\ report = <<"loaded">>
        /\ xlsx = <<>>

EmptyOrdersFailed ==
    /\ Len(files.orders) = 0
    /\ report = <<"loaded">>
    /\ pc = "failed"
    /\ error = "ZeroDivisionError"

\* C8: a category whose summed stock is zero has a defined sentinel
\* (infinity) as turnover ratio, never zero and never NaN, whatever its
\* summed monthly demand.
ZeroStockTurnoverIsSentinel ==
    Printed("inventory") =>
        \A j \in Rows(inventory_summary) :
            inventory_summary[j].Current_Stock = 0 =>
                inventory_summary[j].Turnover_Ratio.kind = "inf"

\* The 90th percentile by linear interpolation between order statistics:
\* v is the value at position 0.9 (n - 1) of the sorted costs.
IsPercentile90(v, costs) ==
    LET n == Len(costs)
        a == Take(costs, StableOrder(costs, 1..n, TRUE))
        lo == (9 * (n - 1)) \div 10
        r == (9 * (n - 1)) % 10
        hi == IF lo + 2 <= n THEN lo + 2 ELSE n
    IN  IF n = 0 THEN v = NaNv
        ELSE /\ v.kind = "num"
             /\ 10 * v.num = v.den * (10 * a[lo + 1] + r * (a[hi] - a[lo + 1]))

Above(h) == /\ high_cost_threshold.kind = "num"
            /\ h.Shipping_Cost * high_cost_threshold.den > high_cost_threshold.num
TimesListed(h) ==
    NumberOf({i \in Rows(high_cost_shipments) :
                high_cost_shipments[i].Shipping_ID = h.Shipping_ID})
OrdersOf(h) == NumberOf({i \in Rows(orders_df) : orders_df[i].Order_ID = h.Order_ID})
RefCosts == [i \in 1..10 |-> 10 * i]

\* C9 as stated: the threshold is the 90th percentile of the shipping costs,
\* the high-cost subset holds exactly the shipments that cost more than the
\* threshold, each once, and the savings are 0.15 x the sum of their costs;
\* costs 10, 20, ..., 100 give threshold 91 and one high-cost shipment.
HighCostIsEveryShipmentAbove ==
    Printed("cost") =>
        LET costs == Column(shipping_df, "Shipping_Cost")
            due == [i \in Rows(shipping_df) |->
                       IF Above(shipping_df[i]) THEN shipping_df[i].Shipping_Cost ELSE 0]
        IN  /\ IsPercentile90(high_cost_threshold, costs)
            /\ \A i \in Rows(shipping_df) :
                   TimesListed(shipping_df[i]) = IF Above(shipping_df[i]) THEN 1 ELSE 0
            /\ Len(high_cost_shipments) = NumberOf({i \in Rows(shipping_df) : Above(shipping_df[i])})
            /\ SameValue(savings, Num(15 * SumSeq(due), 100))
            /\ costs = RefCosts =>
                   /\ SameValue(high_cost_threshold, Num(91, 1))
                   /\ Len(high_cost_shipments) = 1

\* C9 as amended: the subset is taken from the order-shipment join, so a
\* shipment above the threshold is listed once per order row that carries
\* its order identifier (not at all without such a row), and the savings are
\* 0.15 x the sum of the costs of the listed rows.
HighCostIsJoinedRowsAbove ==
    Printed("cost") =>
        LET costs == Column(shipping_df, "Shipping_Cost")
            times == [i \in Rows(shipping_df) |->
                         IF Above(shipping_df[i]) THEN OrdersOf(shipping_df[i]) ELSE 0]
            due == [i \in Rows(shipping_df) |-> times[i] * shipping_df[i].Shipping_Cost]
        IN  /\ IsPercentile90(high_cost_threshold, costs)
            /\ \A i \in Rows(shipping_df) : TimesListed(shipping_df[i]) = times[i]
            /\ Len(high_cost_shipments) = SumSeq(times)
            /\ SameValue(savings, Num(15 * SumSeq(due), 100))
            /\ (costs = RefCosts /\ \A i \in Rows(shipping_df) : OrdersOf(shipping_df[i]) = 1) =>
                   /\ SameValue(high_cost_threshold, Num(91, 1))
                   /\ Len(high_cost_shipments) = 1

\* One shipment costs more than an interpolated threshold and its order
\* identifier stands in two order rows: it is listed twice.
HighCostListedTwice ==
    /\ Printed("cost")
    /\ Len(shipping_df) = 3
    /\ SameValue(high_cost_threshold, Num(18, 1))
    /\ Len(high_cost_shipments) = 2
    /\ high_cost_shipments[1].Shipping_ID = high_cost_shipments[2].Shipping_ID
    /\ SameValue(savings, Num(6, 1))

\* C10: the warehouse rows are in descending on-time rate, rows with equal
\* rates stand in the order in which their warehouses first occur in the
\* Order table, and so the best warehouse of the executive summary is the
\* first-occurring warehouse among those with the highest rate.
FirstRowOf(wh) ==
    CHOOSE i \in Rows(files.orders) :
        /\ files.orders[i].Warehouse = wh
        /\ \A k \in 1..(i - 1) : files.orders[k].Warehouse # wh

WarehouseTiesKeepInputOrder ==
    Printed("fulfillment") =>
        LET wp == warehouse_performance
        IN  /\ \A i, j \in Rows(wp) :
                   i < j =>
                      \/ wp[i].On_Time_Rate_Pct > wp[j].On_Time_Rate_Pct
                      \/ /\ wp[i].On_Time_Rate_Pct = wp[j].On_Time_Rate_Pct
                         /\ FirstRowOf(wp[i].Warehouse) < FirstRowOf(wp[j].Warehouse)
            /\ Printed("saved") =>
                   \A j \in Rows(wp) :
                       \/ wp[j].On_Time_Rate_Pct < wp[1].On_Time_Rate_Pct
                       \/ /\ wp[j].On_Time_Rate_Pct = wp[1].On_Time_Rate_Pct
                          /\ FirstRowOf(BestWarehouse) <= FirstRowOf(wp[j].Warehouse)

\* C11: the sections run in the order load, fulfillment, inventory,
\* supplier, cost, trend, (insights,) export, each after the one before it
\* has finished, so nothing a section assigns has a value before that
\* section is reached; and when one of the four files fails to load the run
\* ends before any metric is computed or any output is written.
Sections == <<"loaded", "fulfillment", "inventory", "supplier", "cost", "trend",
              "insights", "saved">>
Positions == <<"load", "fulfillment", "inventory", "supplier", "cost", "trend",
               "insights", "export", "done">>

StepsRunInOrder ==
    /\ Len(report) <= Len(Sections)
    /\ report = SubSeq(Sections, 1, Len(report))
    /\ pc \in {"failed", Positions[Len(report) + 1]}
    /\ ~Printed("fulfillment") =>
           /\ on_time_rate = Unset /\ avg_delivery_time = Unset /\ avg_delay = Unset
           /\ late_orders = <<>> /\ warehouse_performance = <<>>
    /\ ~Printed("inventory") =>
           low_stock_items = <<>> /\ overstock_items = <<>> /\ inventory_summary = <<>>
    /\ ~Printed("supplier") => top_suppliers = <<>> /\ bottom_suppliers = <<>>
    /\ ~Printed("cost") =>
           /\ orders_with_shipping = <<>> /\ carrier_analysis = <<>>
           /\ high_cost_shipments = <<>>
           /\ total_order_value = Unset /\ total_shipping_cost = Unset
           /\ high_cost_threshold = Unset /\ savings = Unset
    /\ ~Printed("trend") => monthly_trends = <<>>
    /\ xlsx # <<>> => Printed("insights")
    /\ present # FileNames =>
           /\ pc \in {"load", "failed"}
           /\ report = <<>>
           /\ xlsx = <<>>
           /\ orders_df = <<>> /\ inventory_df = <<>>
           /\ supplier_df = <<>> /\ shipping_df = <<>>

RunCompletedInOrder ==
    /\ pc = "done"
    /\ report = Sections
    /\ Len(xlsx) = 6

\* df is the loaded table with nothing but columns of `derived` added: the
\* same rows in the same order, every loaded cell unchanged.
OnlyGains(df, loaded, derived) ==
    /\ Len(df) = Len(loaded)
    /\ \A i \in Rows(loaded) :
           /\ DOMAIN loaded[i] \subseteq DOMAIN df[i]
           /\ (DOMAIN df[i]) \ (DOMAIN loaded[i]) \subseteq derived
           /\ \A c \in DOMAIN loaded[i] : df[i][c] = loaded[i][c]

\* C12: from loading on, no row of the four tables is changed, removed or
\* reordered and no loaded cell changes; the Order table only gains the
\* delivery-time and month columns, the Supplier table only the performance
\* score, and the Inventory and Shipment tables stay exactly as loaded.
LoadedTablesOnlyGainColumns ==
    Printed("loaded") =>
        /\ OnlyGains(orders_df, files.orders, {"Delivery_Time_Days", "Year_Month"})
        /\ OnlyGains(supplier_df, files.supplier, {"Performance_Score"})
        /\ inventory_df = files.inventory
        /\ shipping_df = files.shipping

DerivedColumnsAppended ==
    /\ pc = "done"
    /\ Len(orders_df) >= 2
    /\ Len(supplier_df) >= 2
    /\ \A i \in Rows(orders_df) :
           {"Delivery_Time_Days", "Year_Month"} \subseteq DOMAIN orders_df[i]
    /\ \A i \in Rows(supplier_df) : "Performance_Score" \in DOMAIN supplier_df[i]
    /\ supplier_df[1].Supplier # supplier_df[2].Supplier

\* C13: a run leaves no partial workbook: either no workbook is written, or
\* the run has finished all five metric steps without error and the
\* workbook holds all six sheets.
NoPartialWorkbook ==
    \/ xlsx = <<>>
    \/ /\ xlsx = <<"Warehouse_Performance", "Supplier_Rankings", "Inventory_Summary",
                   "Carrier_Analysis", "Monthly_Trends", "Executive_Summary">>
       /\ pc = "done"
       /\ error = ""
       /\ \A k \in 1..Len(Sections) : Printed(Sections[k])

====
